---- MODULE Spec2Model ----
(***************************************************************************)
(* Model of src/subscription_manager.py: the SubscriptionManager store,    *)
(* its keyword matcher, its AI-search policy, validation and export.       *)
(*                                                                         *)
(* Python values are modelled as follows.                                  *)
(*   dict   a function whose domain is the set of keys that are present    *)
(*   list   a sequence                                                     *)
(*   title / keyword text   a sequence of one-character strings, so that   *)
(*          str.lower() and the substring test "x in s" are computed       *)
(*   other strings (name, url, id, version)   TLA+ strings, "" is falsy    *)
(***************************************************************************)
EXTENDS Integers, Sequences, FiniteSets, TLC

VARIABLES
    pc,               \* "new": fields set by __init__, _load_config not yet run;
                      \* "ready": constructor returned; "failed": constructor raised
    source,           \* the configuration file config_path names
    config_data,      \* self.config_data
    subscriptions,    \* self.subscriptions
    global_settings,  \* self.global_settings
    op,               \* the last method called
    arg,              \* its arguments
    ret,              \* what it returned
    raised,           \* the exception that left the last call, "none" if it returned
    log,              \* the kind of the last line the call printed
    errors,           \* the list errors of the last validate_config call
    queried,          \* TRUE once a method other than export_config was called
    dest              \* the content of the file export_config wrote, NoFile if none

vars == <<pc, source, config_data, subscriptions, global_settings,
          op, arg, ret, raised, log, errors, queried, dest>>

store == <<config_data, subscriptions, global_settings>>

(***************************************************************************)
(* Bounds of the model.                                                    *)
(***************************************************************************)
MaxNews == 2        \* longest news_data list
MaxLimit == 2       \* largest keywords.limit
MaxThreshold == 4   \* largest ai_search.trigger_threshold
MaxCount == 5       \* largest matched_count
MaxSubs == 2        \* most subscriptions in a configuration

(***************************************************************************)
(* Python primitives.                                                      *)
(***************************************************************************)
EmptyDict == <<>>

\* dict.get(k, default)
Get(d, k, default) == IF k \in DOMAIN d THEN d[k] ELSE default

\* The dicts {} and {k: v} for v in vals.
Opt(k, vals) == {EmptyDict} \cup {k :> v : v \in vals}

\* All sequences over S of length at most n.
SeqUpTo(S, n) == UNION {[1..m -> S] : m \in 0..n}

LowerChar(c) ==
    CASE c = "A" -> "a"
      [] c = "B" -> "b"
      [] OTHER -> c

\* str.lower()
lower(s) == [i \in 1..Len(s) |-> LowerChar(s[i])]

\* Python's "needle in hay" on strings: the empty needle is in every string.
StrIn(needle, hay) ==
    \E i \in 0..(Len(hay) - Len(needle)) :
        SubSeq(hay, i + 1, i + Len(needle)) = needle

(***************************************************************************)
(* match_news_for_subscription, lines 89-154.                              *)
(***************************************************************************)
\* Lines 127-145: one iteration of the loop; TRUE when the item is appended.
PassesRulesNoExclude(news, normal_kws, required_kws, excluded_kws) ==
    LET title == lower(Get(news, "title", <<>>))
    IN  IF normal_kws # <<>>
           /\ ~ \E j \in 1..Len(normal_kws) : StrIn(lower(normal_kws[j]), title)
        THEN FALSE
        ELSE IF required_kws # <<>>
                /\ ~ \A j \in 1..Len(required_kws) : StrIn(lower(required_kws[j]), title)
        THEN FALSE
        ELSE TRUE

PassesRulesRequiredAny(news, normal_kws, required_kws, excluded_kws) ==
    LET title == lower(Get(news, "title", <<>>))
    IN  IF excluded_kws # <<>>
           /\ \E j \in 1..Len(excluded_kws) : StrIn(lower(excluded_kws[j]), title)
        THEN FALSE
        ELSE IF normal_kws # <<>>
                /\ ~ \E j \in 1..Len(normal_kws) : StrIn(lower(normal_kws[j]), title)
        THEN FALSE
        ELSE IF required_kws # <<>>
                /\ ~ \E j \in 1..Len(required_kws) : StrIn(lower(required_kws[j]), title)
        THEN FALSE
        ELSE TRUE

PassesRules(news, normal_kws, required_kws, excluded_kws) ==
    LET title == lower(Get(news, "title", <<>>))
    IN  IF excluded_kws # <<>>
           /\ \E j \in 1..Len(excluded_kws) : StrIn(lower(excluded_kws[j]), title)
        THEN FALSE
        ELSE IF normal_kws # <<>>
                /\ ~ \E j \in 1..Len(normal_kws) : StrIn(lower(normal_kws[j]), title)
        THEN FALSE
        ELSE IF required_kws # <<>>
                /\ ~ \A j \in 1..Len(required_kws) : StrIn(lower(required_kws[j]), title)
        THEN FALSE
        ELSE TRUE

\* Lines 124-145: the loop over news_data, appending in input order.
RECURSIVE MatchLoop(_, _, _, _)
MatchLoop(news_data, normal_kws, required_kws, excluded_kws) ==
    IF news_data = <<>>
    THEN <<>>
    ELSE (IF PassesRules(Head(news_data), normal_kws, required_kws, excluded_kws)
          THEN <<Head(news_data)>>
          ELSE <<>>)
         \o MatchLoop(Tail(news_data), normal_kws, required_kws, excluded_kws)

\* Lines 147-150: the limit.
ApplyLimitLast(matched_news, limit) ==
    IF limit > 0 /\ Len(matched_news) > limit
    THEN SubSeq(matched_news, Len(matched_news) - limit + 1, Len(matched_news))
    ELSE matched_news

ApplyLimit(matched_news, limit) ==
    IF limit > 0 /\ Len(matched_news) > limit
    THEN SubSeq(matched_news, 1, limit)
    ELSE matched_news

match_news_for_subscription(subscription, news_data) ==
    LET keywords == Get(subscription, "keywords", EmptyDict)
        normal_kws == Get(keywords, "normal", <<>>)
        required_kws == Get(keywords, "required", <<>>)
        excluded_kws == Get(keywords, "excluded", <<>>)
        limit == Get(keywords, "limit", 0)
    IN  ApplyLimit(MatchLoop(news_data, normal_kws, required_kws, excluded_kws), limit)

(***************************************************************************)
(* Inputs of the matcher.                                                  *)
(***************************************************************************)
\* Keyword texts: the empty keyword, a lower-case one and an upper-case one.
KwLists ==
    {<<>>, << <<>> >>, << <<"a">> >>, << <<"B">> >>,
     << <<"a">>, <<"B">> >>, << <<"a">>, <<>> >>}

Titles == {<<>>, <<"A">>, <<"b">>, <<"A", "b">>}

\* A news item carries a title or none (title then defaults to "").
NewsItems == {[title |-> t] : t \in Titles} \cup {[url |-> "x"]}

Limits == 0..MaxLimit

KeywordRules ==
    {n @@ r @@ e @@ l :
        n \in Opt("normal", KwLists), r \in Opt("required", KwLists),
        e \in Opt("excluded", KwLists), l \in Opt("limit", Limits)}

MatchSubscriptions == {[name |-> "s"]} \cup {[name |-> "s", keywords |-> k] : k \in KeywordRules}

NoFile == [kind |-> "none"]

\* The fields as __init__ leaves them at lines 29-32.
EmptyStore ==
    /\ config_data = EmptyDict
    /\ subscriptions = <<>>
    /\ global_settings = EmptyDict

(***************************************************************************)
(* The matcher on its own: a manager built without a configuration file,   *)
(* match_news_for_subscription applied to any subscription and news list.  *)
(***************************************************************************)
InitMatch ==
    /\ pc = "ready"
    /\ source = [kind |-> "absent"]
    /\ EmptyStore
    /\ op = "none"
    /\ arg \in {[subscription |-> s, news_data |-> n] :
                    s \in MatchSubscriptions, n \in SeqUpTo(NewsItems, MaxNews)}
    /\ ret = <<>>
    /\ raised = "none"
    /\ log = "none"
    /\ errors = <<>>
    /\ queried = FALSE
    /\ dest = NoFile

MatchNews ==
    /\ pc = "ready"
    /\ op = "none"
    /\ op' = "match_news_for_subscription"
    /\ ret' = match_news_for_subscription(arg.subscription, arg.news_data)
    /\ log' = "matched"
    /\ UNCHANGED <<pc, source, store, arg, raised, errors, queried, dest>>

NextMatch == MatchNews

SpecMatch == InitMatch /\ [][NextMatch]_vars

(***************************************************************************)
(* Claims about the matcher, stated on the arguments and the result of the *)
(* call without the loop: Range, SelectSeq and quantifiers.                *)
(***************************************************************************)
Range(s) == {s[i] : i \in 1..Len(s)}

Matched == op = "match_news_for_subscription"

RuleOf(sub) == Get(sub, "keywords", EmptyDict)
NormalOf(sub) == Range(Get(RuleOf(sub), "normal", <<>>))
RequiredOf(sub) == Range(Get(RuleOf(sub), "required", <<>>))
ExcludedOf(sub) == Range(Get(RuleOf(sub), "excluded", <<>>))
LimitOf(sub) == Get(RuleOf(sub), "limit", 0)
TitleOf(item) == lower(Get(item, "title", <<>>))

HitsExcluded(sub, item) == \E ex \in ExcludedOf(sub) : StrIn(lower(ex), TitleOf(item))

\* The keyword predicate of the rule: no excluded term, some normal term unless
\* there is none, every required term.
Satisfies(sub, item) ==
    /\ ~ HitsExcluded(sub, item)
    /\ (NormalOf(sub) = {} \/ \E kw \in NormalOf(sub) : StrIn(lower(kw), TitleOf(item)))
    /\ \A req \in RequiredOf(sub) : StrIn(lower(req), TitleOf(item))

\* The items of news_data that satisfy the rule, in input order.
RawMatches(sub, news_data) ==
    LET Test(item) == Satisfies(sub, item)
    IN  SelectSeq(news_data, Test)

RECURSIVE IsSubsequence(_, _)
IsSubsequence(s, t) ==
    IF s = <<>> THEN TRUE
    ELSE IF t = <<>> THEN FALSE
    ELSE IF Head(s) = Head(t) THEN IsSubsequence(Tail(s), Tail(t))
    ELSE IsSubsequence(s, Tail(t))

\* C1: every item match_news_for_subscription returns satisfies the rule's keyword
\* predicate on its lowercased title (no excluded term is a substring, some normal
\* term is unless normal is empty, every required term is), so an item whose title
\* holds an excluded term is never returned; and with limit 0 every input item that
\* satisfies the predicate is returned.
C1_MatchPredicate ==
    Matched =>
        /\ \A i \in 1..Len(ret) : Satisfies(arg.subscription, ret[i])
        /\ \A i \in 1..Len(ret) : ~ HitsExcluded(arg.subscription, ret[i])
        /\ (LimitOf(arg.subscription) = 0 =>
                \A j \in 1..Len(arg.news_data) :
                    Satisfies(arg.subscription, arg.news_data[j])
                        => arg.news_data[j] \in Range(ret))

\* An item that holds a normal term and every required term is left out for its
\* excluded term alone, while another item is returned.
C1_Witness ==
    /\ Matched
    /\ NormalOf(arg.subscription) # {}
    /\ RequiredOf(arg.subscription) # {}
    /\ <<>> \notin NormalOf(arg.subscription) \cup RequiredOf(arg.subscription)
                    \cup ExcludedOf(arg.subscription)
    /\ ret # <<>>
    /\ \E j \in 1..Len(arg.news_data) :
        LET item == arg.news_data[j]
        IN  /\ HitsExcluded(arg.subscription, item)
            /\ \E kw \in NormalOf(arg.subscription) : StrIn(lower(kw), TitleOf(item))
            /\ \A req \in RequiredOf(arg.subscription) : StrIn(lower(req), TitleOf(item))
            /\ item \notin Range(ret)

\* C2: with limit N > 0 and more than N items passing the rules the result is the
\* first N passing items in input order, otherwise (limit 0 included) it is all the
\* passing items; the result is always a subsequence of the input.
C2_LimitPrefix ==
    Matched =>
        LET raw == RawMatches(arg.subscription, arg.news_data)
            N == LimitOf(arg.subscription)
        IN  /\ (N > 0 /\ Len(raw) > N) =>
                    (Len(ret) = N /\ \A i \in 1..N : ret[i] = raw[i])
            /\ ~ (N > 0 /\ Len(raw) > N) => ret = raw
            /\ IsSubsequence(ret, arg.news_data)

\* The limit cuts: two different items pass and limit is 1.
C2_Witness ==
    /\ Matched
    /\ LimitOf(arg.subscription) = 1
    /\ Len(RawMatches(arg.subscription, arg.news_data)) = 2
    /\ RawMatches(arg.subscription, arg.news_data)[1]
            # RawMatches(arg.subscription, arg.news_data)[2]
    /\ Len(ret) = 1

EmptyTitle(item) == Get(item, "title", <<>>) = <<>>

\* C9 as stated: an empty-title item is returned only if normal and required are
\* both empty and no excluded term matches the empty string.
C9_EmptyTitleOriginal ==
    Matched =>
        \A i \in 1..Len(ret) :
            EmptyTitle(ret[i]) =>
                /\ NormalOf(arg.subscription) = {}
                /\ RequiredOf(arg.subscription) = {}
                /\ <<>> \notin ExcludedOf(arg.subscription)

\* C9 as amended: an empty-title item is returned only if no excluded term is the
\* empty string, normal is empty or holds the empty string, and every required term
\* is the empty string; so a rule whose normal list is non-empty without an empty
\* term, or whose required list holds a non-empty term, rejects every empty-title
\* item.
C9_EmptyTitleAmended ==
    Matched =>
        /\ \A i \in 1..Len(ret) :
            EmptyTitle(ret[i]) =>
                /\ <<>> \notin ExcludedOf(arg.subscription)
                /\ (NormalOf(arg.subscription) = {} \/ <<>> \in NormalOf(arg.subscription))
                /\ RequiredOf(arg.subscription) \subseteq {<<>>}
        /\ ((NormalOf(arg.subscription) # {} /\ <<>> \notin NormalOf(arg.subscription))
            \/ ~ (RequiredOf(arg.subscription) \subseteq {<<>>}))
                => \A j \in 1..Len(arg.news_data) :
                        EmptyTitle(arg.news_data[j]) => arg.news_data[j] \notin Range(ret)

\* An empty-title item is returned under a rule whose normal and required lists are
\* both non-empty, next to an item with a title.
C9_Witness ==
    /\ Matched
    /\ \E i \in 1..Len(ret) : EmptyTitle(ret[i])
    /\ \E i \in 1..Len(ret) : ~ EmptyTitle(ret[i])
    /\ NormalOf(arg.subscription) # {}
    /\ RequiredOf(arg.subscription) # {}

(***************************************************************************)
(* should_enable_ai_search, lines 178-200, and get_ai_search_config,       *)
(* lines 202-227.                                                          *)
(***************************************************************************)
DefaultThreshold == 3

\* Line 196 with <= for <.
TriggersAtThreshold(matched_count, threshold) == matched_count <= threshold

\* Line 196.
Triggers(matched_count, threshold) == matched_count < threshold

should_enable_ai_search(subscription, matched_count) ==
    LET ai_config == Get(subscription, "ai_search", EmptyDict)
    IN  IF ~ Get(ai_config, "enabled", FALSE)
        THEN FALSE
        ELSE LET threshold == Get(ai_config, "trigger_threshold", DefaultThreshold)
             IN  IF Triggers(matched_count, threshold) THEN TRUE ELSE FALSE

get_ai_search_config(subscription) ==
    LET ai_config == Get(subscription, "ai_search", EmptyDict)
        keywords == Get(subscription, "keywords", EmptyDict)
        own == Get(ai_config, "search_keywords", <<>>)
        search_keywords == IF own = <<>> THEN Get(keywords, "normal", <<>>) ELSE own
    IN  [enabled |-> Get(ai_config, "enabled", FALSE),
         trigger_threshold |-> Get(ai_config, "trigger_threshold", DefaultThreshold),
         search_keywords |-> search_keywords,
         time_range_hours |-> Get(ai_config, "time_range_hours", 24),
         max_results |-> Get(ai_config, "max_results", 15)]

(***************************************************************************)
(* Inputs of the AI-search policy.                                         *)
(***************************************************************************)
AiConfigs ==
    {e @@ t @@ k :
        e \in Opt("enabled", BOOLEAN), t \in Opt("trigger_threshold", 0..MaxThreshold),
        k \in Opt("search_keywords", {<<>>, << <<"a">> >>})}

AiSubscriptions ==
    {n @@ a @@ k :
        n \in {[name |-> "s"]}, a \in Opt("ai_search", AiConfigs),
        k \in Opt("keywords", {[normal |-> << <<"B">> >>]})}

(***************************************************************************)
(* The AI-search policy on its own.                                        *)
(***************************************************************************)
InitAi ==
    /\ pc = "ready"
    /\ source = [kind |-> "absent"]
    /\ EmptyStore
    /\ op = "none"
    /\ arg \in {[subscription |-> s, matched_count |-> c] :
                    s \in AiSubscriptions, c \in 0..MaxCount}
    /\ ret = <<>>
    /\ raised = "none"
    /\ log = "none"
    /\ errors = <<>>
    /\ queried = FALSE
    /\ dest = NoFile

AiShouldEnable ==
    /\ pc = "ready"
    /\ op' = "should_enable_ai_search"
    /\ ret' = should_enable_ai_search(arg.subscription, arg.matched_count)
    /\ log' = IF ret' THEN "ai_triggered" ELSE "none"
    /\ UNCHANGED <<pc, source, store, arg, raised, errors, queried, dest>>

AiGetConfig ==
    /\ pc = "ready"
    /\ op' = "get_ai_search_config"
    /\ ret' = get_ai_search_config(arg.subscription)
    /\ log' = "none"
    /\ UNCHANGED <<pc, source, store, arg, raised, errors, queried, dest>>

NextAi == AiShouldEnable \/ AiGetConfig

SpecAi == InitAi /\ [][NextAi]_vars

\* C3: should_enable_ai_search returns true exactly when ai_search.enabled is true
\* and matched_count is below trigger_threshold (3 when the field is absent); it is
\* false whenever ai_search is disabled or absent and false at matched_count equal
\* to the threshold.
C3_AiTrigger ==
    op = "should_enable_ai_search" =>
        LET sub == arg.subscription
            present == "ai_search" \in DOMAIN sub
            enabled == /\ present
                       /\ "enabled" \in DOMAIN sub.ai_search
                       /\ sub.ai_search.enabled = TRUE
            threshold == IF present /\ "trigger_threshold" \in DOMAIN sub.ai_search
                         THEN sub.ai_search.trigger_threshold
                         ELSE 3
        IN  /\ ret = (enabled /\ arg.matched_count < threshold)
            /\ ~ enabled => ret = FALSE
            /\ arg.matched_count = threshold => ret = FALSE

\* An enabled policy asked at the boundary, with the default threshold.
C3_Witness ==
    /\ op = "should_enable_ai_search"
    /\ "ai_search" \in DOMAIN arg.subscription
    /\ Get(arg.subscription.ai_search, "enabled", FALSE) = TRUE
    /\ "trigger_threshold" \notin DOMAIN arg.subscription.ai_search
    /\ arg.matched_count = 3
    /\ ret = FALSE

(***************************************************************************)
(* get_webhooks, lines 156-176.                                            *)
(***************************************************************************)
\* Python truthiness of d.get(k): absent (None) and the empty value are falsy.
Falsy(d, k, empty) == k \notin DOMAIN d \/ d[k] = empty

\* Line 171 testing only that the key is there.
SkipsWebhookKeyOnly(webhook) == "url" \notin DOMAIN webhook

\* Line 171: not webhook.get("url").
SkipsWebhook(webhook) == Falsy(webhook, "url", "")

\* Lines 169-174: the loop.
RECURSIVE WebhookLoop(_)
WebhookLoop(webhooks) ==
    IF webhooks = <<>>
    THEN <<>>
    ELSE (IF SkipsWebhook(Head(webhooks)) THEN <<>> ELSE <<Head(webhooks)>>)
         \o WebhookLoop(Tail(webhooks))

get_webhooks(subscription) == WebhookLoop(Get(subscription, "webhooks", <<>>))

(***************************************************************************)
(* validate_config, lines 247-288.                                         *)
(***************************************************************************)
\* Line 261: sub.get("id", <the default label followed by idx>).
SubId(sub, idx) == IF "id" \in DOMAIN sub THEN <<sub.id>> ELSE <<"subscription#", idx>>

\* One appended message: f"[{sub_id}] ..." with the field it names.
Err(sub_id, what, w_idx) == [sub_id |-> sub_id, what |-> what, w_idx |-> w_idx]

\* Lines 277-279 appending nothing.
RECURSIVE UrlErrorsNone(_, _, _)
UrlErrorsNone(sub_id, webhooks, w_idx) == <<>>

\* Lines 277-279: one message per webhook without a url.
RECURSIVE UrlErrors(_, _, _)
UrlErrors(sub_id, webhooks, w_idx) ==
    IF webhooks = <<>>
    THEN <<>>
    ELSE (IF Falsy(Head(webhooks), "url", "") THEN <<Err(sub_id, "url", w_idx)>> ELSE <<>>)
         \o UrlErrors(sub_id, Tail(webhooks), w_idx + 1)

\* Lines 261-279: the messages one subscription adds.
SubErrors(sub, idx) ==
    LET sub_id == SubId(sub, idx)
    IN  (IF Falsy(sub, "name", "") THEN <<Err(sub_id, "name", 0)>> ELSE <<>>)
        \o (IF Falsy(sub, "keywords", EmptyDict) THEN <<Err(sub_id, "keywords", 0)>> ELSE <<>>)
        \o (IF Falsy(sub, "webhooks", <<>>)
            THEN <<Err(sub_id, "webhooks", 0)>>
            ELSE LET webhooks == Get(sub, "webhooks", <<>>)
                 IN  IF webhooks = <<>>
                     THEN <<Err(sub_id, "webhooks_empty", 0)>>
                     ELSE UrlErrors(sub_id, webhooks, 1))

\* Line 260 leaving the loop at the first subscription that adds a message.
RECURSIVE ValidateLoopFirstOnly(_, _)
ValidateLoopFirstOnly(subs, idx) ==
    IF subs = <<>>
    THEN <<>>
    ELSE IF SubErrors(Head(subs), idx) # <<>>
         THEN SubErrors(Head(subs), idx)
         ELSE ValidateLoopFirstOnly(Tail(subs), idx + 1)

\* Lines 258-279: the loop over enumerate(self.subscriptions, 1).
RECURSIVE ValidateLoop(_, _)
ValidateLoop(subs, idx) ==
    IF subs = <<>>
    THEN <<>>
    ELSE SubErrors(Head(subs), idx) \o ValidateLoop(Tail(subs), idx + 1)

\* The value returned and the list collected.
validate_config(subs) ==
    IF subs = <<>>
    THEN [ret |-> FALSE, errors |-> <<>>, log |-> "no_subscriptions"]
    ELSE LET errs == ValidateLoop(subs, 1)
         IN  IF errs # <<>>
             THEN [ret |-> FALSE, errors |-> errs, log |-> "validation_failed"]
             ELSE [ret |-> TRUE, errors |-> errs, log |-> "validation_passed"]

(***************************************************************************)
(* The configuration file: json.load at line 44, json.dump at line 242.    *)
(* A JSON text is the sequence of the top-level object's members, each a   *)
(* <<key, value>> pair; json.load keeps the last value of a repeated key.  *)
(***************************************************************************)
KeyOrder == <<"version", "subscriptions", "global_settings", "comment">>

RECURSIVE json_load(_)
json_load(text) ==
    IF text = <<>>
    THEN EmptyDict
    ELSE LET rest == json_load(SubSeq(text, 1, Len(text) - 1))
             last == text[Len(text)]
         IN  [k \in DOMAIN rest \cup {last[1]} |-> IF k = last[1] THEN last[2] ELSE rest[k]]

RECURSIVE DumpKeys(_, _)
DumpKeys(d, keys) ==
    IF keys = <<>>
    THEN <<>>
    ELSE (IF Head(keys) \in DOMAIN d THEN << <<Head(keys), d[Head(keys)]>> >> ELSE <<>>)
         \o DumpKeys(d, Tail(keys))

json_dump(d) == DumpKeys(d, KeyOrder)

(***************************************************************************)
(* Subscriptions of a configuration.                                       *)
(***************************************************************************)
GoodHook == [type |-> "wework", url |-> "https://a", name |-> "g"]
GoodHook2 == [type |-> "feishu", url |-> "https://b"]
NoUrlHook == [type |-> "wework", name |-> "n"]
EmptyUrlHook == [type |-> "feishu", url |-> "", name |-> "e"]

SomeRule == [normal |-> << <<"a">> >>, excluded |-> << <<"B">> >>, limit |-> 1]

\* Every combination of the fields validate_config reads.
WebhookLists == {<<>>, <<GoodHook>>, <<NoUrlHook, GoodHook, EmptyUrlHook>>}

ValidateSubs ==
    {i @@ n @@ k @@ w :
        i \in Opt("id", {"s1"}), n \in Opt("name", {"", "n"}),
        k \in Opt("keywords", {EmptyDict, SomeRule}), w \in Opt("webhooks", WebhookLists)}

\* What _load_config leaves in the fields for a parsed document, lines 44-46.
Loaded(doc) ==
    /\ config_data = doc
    /\ subscriptions = Get(doc, "subscriptions", <<>>)
    /\ global_settings = Get(doc, "global_settings", EmptyDict)

(***************************************************************************)
(* validate_config on its own: a manager built from any list of            *)
(* subscriptions.                                                          *)
(***************************************************************************)
InitValidate ==
    /\ pc = "ready"
    /\ \E subs \in SeqUpTo(ValidateSubs, MaxSubs) :
        LET doc == [version |-> "1.0", subscriptions |-> subs]
        IN  /\ source = [kind |-> "json", text |-> json_dump(doc)]
            /\ Loaded(doc)
    /\ op = "__init__"
    /\ arg = <<>>
    /\ ret = <<>>
    /\ raised = "none"
    /\ log = "loaded"
    /\ errors = <<>>
    /\ queried = FALSE
    /\ dest = NoFile

ValidateConfig ==
    /\ pc = "ready"
    /\ op' = "validate_config"
    /\ arg' = <<>>
    /\ ret' = validate_config(subscriptions).ret
    /\ errors' = validate_config(subscriptions).errors
    /\ log' = validate_config(subscriptions).log
    /\ raised' = "none"
    /\ queried' = TRUE
    /\ UNCHANGED <<pc, source, store, dest>>

NextValidate == ValidateConfig

SpecValidate == InitValidate /\ [][NextValidate]_vars

(***************************************************************************)
(* Claims about validate_config, stated on the stored subscriptions and    *)
(* the collected list by counting messages.                                *)
(***************************************************************************)
Validated == op = "validate_config"

IdAt(i) == SubId(subscriptions[i], i)

HooksAt(i) == Get(subscriptions[i], "webhooks", <<>>)

\* Subscription i breaks the rule a message (what, w_idx) reports.
Violates(i, what, w_idx) ==
    CASE what = "name" -> w_idx = 0 /\ Falsy(subscriptions[i], "name", "")
      [] what = "keywords" -> w_idx = 0 /\ Falsy(subscriptions[i], "keywords", EmptyDict)
      [] what = "webhooks" -> w_idx = 0 /\ HooksAt(i) = <<>>
      [] what = "url" -> /\ w_idx \in 1..Len(HooksAt(i))
                         /\ Falsy(HooksAt(i)[w_idx], "url", "")
      [] OTHER -> FALSE

CountOf(e) == Cardinality({k \in 1..Len(errors) : errors[k] = e})

ViolationsOf(e) ==
    Cardinality({i \in 1..Len(subscriptions) :
                    IdAt(i) = e.sub_id /\ Violates(i, e.what, e.w_idx)})

LongestHooks ==
    IF subscriptions = <<>> THEN 0
    ELSE CHOOSE n \in {Len(HooksAt(i)) : i \in 1..Len(subscriptions)} :
            \A i \in 1..Len(subscriptions) : Len(HooksAt(i)) <= n

PossibleMessages ==
    {Err(IdAt(i), what, w) :
        i \in 1..Len(subscriptions),
        what \in {"name", "keywords", "webhooks", "url"},
        w \in 0..LongestHooks}

\* C4: validate_config collects one message per violation over all subscriptions
\* (missing name, missing keywords, missing or empty webhooks, each webhook without
\* a url) without stopping at the first, and returns true exactly when the store is
\* not empty and nothing was collected; a subscription without a webhooks field adds
\* exactly one message about it and the subscriptions after it are still checked.
C4_ValidateCollectsAll ==
    Validated =>
        /\ ret = (subscriptions # <<>> /\ errors = <<>>)
        /\ \A e \in Range(errors) \cup PossibleMessages : CountOf(e) = ViolationsOf(e)

\* The first subscription has no webhooks field and is reported once; the second
\* one is reported too.
C4_Witness ==
    /\ Validated
    /\ Len(subscriptions) >= 2
    /\ "webhooks" \notin DOMAIN subscriptions[1]
    /\ IdAt(1) # IdAt(2)
    /\ CountOf(Err(IdAt(1), "webhooks", 0)) = 1
    /\ \E k \in 1..Len(errors) : errors[k].sub_id = IdAt(2) /\ errors[k].what = "url"
    /\ ret = FALSE

(***************************************************************************)
(* The remaining queries.                                                  *)
(***************************************************************************)
NoneVal == [py_none |-> TRUE]

\* Line 61.
has_subscriptions(subs) == Len(subs) > 0

\* Line 70.
get_active_subscriptions(subs) ==
    LET Enabled(sub) == Get(sub, "enabled", TRUE)
    IN  SelectSeq(subs, Enabled)

\* Lines 84-87: the first subscription with that id, else None.
RECURSIVE get_subscription_by_id(_, _)
get_subscription_by_id(subs, sub_id) ==
    IF subs = <<>>
    THEN NoneVal
    ELSE IF "id" \in DOMAIN Head(subs) /\ Head(subs).id = sub_id
         THEN Head(subs)
         ELSE get_subscription_by_id(Tail(subs), sub_id)

\* Line 304: webhook_count += len(sub.get("webhooks", [])).
RECURSIVE TotalWebhooks(_)
TotalWebhooks(subs) ==
    IF subs = <<>>
    THEN 0
    ELSE Len(Get(Head(subs), "webhooks", <<>>)) + TotalWebhooks(Tail(subs))

\* Lines 305-306.
RECURSIVE AiEnabledCount(_)
AiEnabledCount(subs) ==
    IF subs = <<>>
    THEN 0
    ELSE (IF Get(Get(Head(subs), "ai_search", EmptyDict), "enabled", FALSE) THEN 1 ELSE 0)
         + AiEnabledCount(Tail(subs))

\* Lines 297-314.
get_statistics(cd, subs) ==
    [total_subscriptions |-> Len(subs),
     active_subscriptions |-> Len(get_active_subscriptions(subs)),
     total_webhooks |-> TotalWebhooks(subs),
     ai_enabled_count |-> AiEnabledCount(subs),
     config_version |-> Get(cd, "version", "unknown")]

(***************************************************************************)
(* _load_config, lines 35-57, and export_config, lines 233-245.            *)
(***************************************************************************)
Outcome(exc, cd, subs, gs, printed) ==
    [raised |-> exc, config_data |-> cd, subscriptions |-> subs,
     global_settings |-> gs, log |-> printed]

\* Lines 52-57 printing the error without the raise.
LoadOutcomeSwallows(src) ==
    CASE src.kind = "absent" ->
            Outcome("none", EmptyDict, <<>>, EmptyDict, "missing_file")
      [] src.kind = "malformed" ->
            Outcome("none", EmptyDict, <<>>, EmptyDict, "json_error")
      [] src.kind = "not_object" ->
            Outcome("none", <<>>, <<>>, EmptyDict, "load_error")
      [] OTHER ->
            LET doc == json_load(src.text)
            IN  Outcome("none", doc, Get(doc, "subscriptions", <<>>),
                        Get(doc, "global_settings", EmptyDict), "loaded")

\* What _load_config does on each kind of file.  absent: lines 37-40 return.
\* malformed: json.load raises at line 44 before any assignment, lines 52-54
\* print and re-raise.  not_object: the text is JSON but not an object, line 44
\* assigns it and .get at line 45 raises, lines 55-57 print and re-raise.
LoadOutcome(src) ==
    CASE src.kind = "absent" ->
            Outcome("none", EmptyDict, <<>>, EmptyDict, "missing_file")
      [] src.kind = "malformed" ->
            Outcome("JSONDecodeError", EmptyDict, <<>>, EmptyDict, "json_error")
      [] src.kind = "not_object" ->
            Outcome("AttributeError", <<>>, <<>>, EmptyDict, "load_error")
      [] OTHER ->
            LET doc == json_load(src.text)
            IN  Outcome("none", doc, Get(doc, "subscriptions", <<>>),
                        Get(doc, "global_settings", EmptyDict), "loaded")

\* Line 242 dumping the two fields the manager keeps beside config_data.
ExportPayloadFieldsOnly(cd, subs, gs) == [subscriptions |-> subs, global_settings |-> gs]

\* Line 242: json.dump(self.config_data, ...).
ExportPayload(cd, subs, gs) == cd

\* Lines 244-245 with a raise after the print, as _load_config has.
ExportRaisedPropagates(writable) == IF writable THEN "none" ELSE "IOError"

\* Lines 244-245: the except clause prints and falls through.
ExportRaised(writable) == "none"

(***************************************************************************)
(* Configuration files.                                                    *)
(***************************************************************************)
StoreSubs ==
    {[id |-> "s1", name |-> "n", enabled |-> TRUE, keywords |-> SomeRule,
      webhooks |-> <<GoodHook, GoodHook2>>,
      ai_search |-> [enabled |-> TRUE, trigger_threshold |-> 1]],
     [id |-> "s2", name |-> "m", enabled |-> FALSE, keywords |-> SomeRule,
      webhooks |-> <<GoodHook>>],
     [id |-> "s1", name |-> "n", keywords |-> SomeRule,
      webhooks |-> <<NoUrlHook, GoodHook, EmptyUrlHook, GoodHook2>>],
     [name |-> "n", keywords |-> SomeRule, ai_search |-> [enabled |-> TRUE]],
     [id |-> "s3", name |-> "", enabled |-> FALSE, keywords |-> EmptyDict,
      webhooks |-> <<>>, ai_search |-> [enabled |-> FALSE]]}

\* The top-level fields beside subscriptions.
TopLevels ==
    {EmptyDict,
     [version |-> "1.0"],
     [version |-> "1.0", global_settings |-> [report_mode |-> "incremental"]],
     [version |-> "1.0", global_settings |-> [report_mode |-> "incremental"],
      comment |-> "x"]}

Docs ==
    {t @@ s : t \in TopLevels, s \in Opt("subscriptions", SeqUpTo(StoreSubs, MaxSubs))}

\* The members in key order, and texts that repeat the version key.
JsonTexts ==
    {json_dump(d) : d \in Docs}
        \cup {<< <<"version", "0.9">> >> \o json_dump(d) :
                d \in {x \in Docs : "comment" \in DOMAIN x}}

Sources ==
    {[kind |-> "absent"], [kind |-> "malformed"], [kind |-> "not_object"]}
        \cup {[kind |-> "json", text |-> t] : t \in JsonTexts}

\* Matched counts below, at and above the thresholds 1 and 3 of StoreSubs.
StoreCounts == {0, 1, 3}

StoreNews == {<<>>, <<[title |-> <<"A">>], [title |-> <<"A", "b">>], [title |-> <<"a">>]>>}

(***************************************************************************)
(* The manager: construction from a file, then any calls in any order.     *)
(***************************************************************************)
Init ==
    /\ pc = "new"
    /\ source \in Sources
    /\ EmptyStore
    /\ op = "none"
    /\ arg = <<>>
    /\ ret = <<>>
    /\ raised = "none"
    /\ log = "none"
    /\ errors = <<>>
    /\ queried = FALSE
    /\ dest = NoFile

\* __init__ at line 33: self._load_config().
LoadConfig ==
    /\ pc = "new"
    /\ pc' = IF LoadOutcome(source).raised = "none" THEN "ready" ELSE "failed"
    /\ config_data' = LoadOutcome(source).config_data
    /\ subscriptions' = LoadOutcome(source).subscriptions
    /\ global_settings' = LoadOutcome(source).global_settings
    /\ raised' = LoadOutcome(source).raised
    /\ log' = LoadOutcome(source).log
    /\ op' = "__init__"
    /\ UNCHANGED <<source, arg, ret, errors, queried, dest>>

\* A query: it returns value to its caller and assigns no field.
Query(name, args, value, printed) ==
    /\ pc = "ready"
    /\ op' = name
    /\ arg' = args
    /\ ret' = value
    /\ log' = printed
    /\ raised' = "none"
    /\ queried' = TRUE
    /\ UNCHANGED <<pc, source, store, errors, dest>>

HasSubscriptions ==
    Query("has_subscriptions", <<>>, has_subscriptions(subscriptions), "none")

GetActiveSubscriptions ==
    Query("get_active_subscriptions", <<>>, get_active_subscriptions(subscriptions), "active")

GetSubscriptionById ==
    \E sub_id \in {"s1", "s2", "zz"} :
        Query("get_subscription_by_id", [sub_id |-> sub_id],
              get_subscription_by_id(subscriptions, sub_id), "none")

StoreMatchNews ==
    \E i \in 1..Len(subscriptions), news_data \in StoreNews :
        Query("match_news_for_subscription",
              [index |-> i, subscription |-> subscriptions[i], news_data |-> news_data],
              match_news_for_subscription(subscriptions[i], news_data), "matched")

GetWebhooks ==
    \E i \in 1..Len(subscriptions) :
        Query("get_webhooks", [index |-> i, subscription |-> subscriptions[i]],
              get_webhooks(subscriptions[i]),
              IF Len(get_webhooks(subscriptions[i])) < Len(Get(subscriptions[i], "webhooks", <<>>))
              THEN "skipped_webhook" ELSE "none")

ShouldEnableAiSearch ==
    \E i \in 1..Len(subscriptions), matched_count \in StoreCounts :
        Query("should_enable_ai_search",
              [index |-> i, subscription |-> subscriptions[i], matched_count |-> matched_count],
              should_enable_ai_search(subscriptions[i], matched_count),
              IF should_enable_ai_search(subscriptions[i], matched_count)
              THEN "ai_triggered" ELSE "none")

GetAiSearchConfig ==
    \E i \in 1..Len(subscriptions) :
        Query("get_ai_search_config", [index |-> i, subscription |-> subscriptions[i]],
              get_ai_search_config(subscriptions[i]), "none")

GetGlobalSettings ==
    Query("get_global_settings", <<>>, global_settings, "none")

GetStatistics ==
    Query("get_statistics", <<>>, get_statistics(config_data, subscriptions), "active")

StoreValidateConfig ==
    /\ pc = "ready"
    /\ ValidateConfig

\* export_config(output_path): the write succeeds or fails.  A failure at open()
\* leaves the file as it was, one inside json.dump leaves a partial file.
ExportConfig ==
    /\ pc = "ready"
    /\ \E writable \in BOOLEAN :
        /\ arg' = [output_path |-> "out.json", writable |-> writable]
        /\ raised' = ExportRaised(writable)
        /\ IF writable
           THEN /\ dest' = [kind |-> "json",
                            text |-> json_dump(ExportPayload(config_data, subscriptions,
                                                             global_settings))]
                /\ log' = "exported"
           ELSE /\ dest' \in {dest, [kind |-> "partial"]}
                /\ log' = "export_failed"
    /\ op' = "export_config"
    /\ ret' = NoneVal
    /\ UNCHANGED <<pc, source, store, errors, queried>>

Next ==
    \/ LoadConfig
    \/ HasSubscriptions
    \/ GetActiveSubscriptions
    \/ GetSubscriptionById
    \/ StoreMatchNews
    \/ GetWebhooks
    \/ ShouldEnableAiSearch
    \/ GetAiSearchConfig
    \/ GetGlobalSettings
    \/ GetStatistics
    \/ StoreValidateConfig
    \/ ExportConfig

Spec == Init /\ [][Next]_vars

(***************************************************************************)
(* Claims about the manager.                                               *)
(***************************************************************************)
HasUrl(webhook) == "url" \in DOMAIN webhook /\ webhook.url # ""

\* C5 as stated: a failed write makes export_config raise IOError to its caller.
C5_ExportFailureRaises ==
    (op = "export_config" /\ ~ arg.writable) => raised = "IOError"

\* C5 as amended: when the write fails export_config prints the failure and returns
\* normally, with the value a successful call returns and no exception; the printed
\* line is the only difference the call shows.
C5_ExportFailureSwallowed ==
    op = "export_config" =>
        /\ raised = "none"
        /\ ret = NoneVal
        /\ pc = "ready"
        /\ log = IF arg.writable THEN "exported" ELSE "export_failed"

\* A failed export of a loaded configuration that left a partial file.
C5_Witness ==
    /\ op = "export_config"
    /\ ~ arg.writable
    /\ log = "export_failed"
    /\ dest.kind = "partial"
    /\ subscriptions # <<>>

\* C6: built from an absent file the manager is usable and empty (no subscriptions,
\* empty global settings, has_subscriptions false, get_active_subscriptions empty);
\* built from a malformed file the constructor raises the parse error, so no manager
\* exists and no method ever runs on it.
C6_LoadAbsentOrMalformed ==
    /\ (source.kind = "absent" /\ pc # "new") =>
            /\ pc = "ready"
            /\ config_data = EmptyDict
            /\ subscriptions = <<>>
            /\ global_settings = EmptyDict
            /\ (op = "__init__" => raised = "none")
            /\ (op = "has_subscriptions" => ret = FALSE)
            /\ (op = "get_active_subscriptions" => ret = <<>>)
            /\ (op = "get_global_settings" => ret = EmptyDict)
    /\ (source.kind = "malformed" /\ pc # "new") =>
            /\ pc = "failed"
            /\ op = "__init__"
            /\ raised = "JSONDecodeError"
            /\ subscriptions = <<>>
    /\ pc = "failed" => (op = "__init__" /\ raised # "none" /\ ~ queried)

\* The manager built from an absent file answers has_subscriptions.
C6_Witness ==
    /\ source.kind = "absent"
    /\ pc = "ready"
    /\ op = "has_subscriptions"
    /\ ret = FALSE

\* C7: get_webhooks returns the stored webhooks of the subscription that have a
\* non-empty url, in stored order, and the call changes nothing stored.
C7_GetWebhooksFilters ==
    [][op' = "get_webhooks" =>
        /\ arg'.subscription = subscriptions[arg'.index]
        /\ LET stored == Get(subscriptions[arg'.index], "webhooks", <<>>)
           IN  ret' = SelectSeq(stored, HasUrl)
        /\ subscriptions' = subscriptions
        /\ config_data' = config_data
        /\ global_settings' = global_settings]_vars

\* Two webhooks are dropped and two kept, and the stored list still has all four.
C7_Witness ==
    /\ op = "get_webhooks"
    /\ Len(ret) = 2
    /\ ret[1] # ret[2]
    /\ Len(Get(subscriptions[arg.index], "webhooks", <<>>)) = 4
    /\ \E w \in 1..4 : "url" \notin DOMAIN subscriptions[arg.index].webhooks[w]
    /\ \E w \in 1..4 : Get(subscriptions[arg.index].webhooks[w], "url", "x") = ""

\* C8: after loading a well-formed configuration, whatever queries ran since, a
\* successful export writes a text that parses to the document the source parsed to.
C8_ExportRoundTrip ==
    (op = "export_config" /\ arg.writable /\ source.kind = "json") =>
        /\ dest.kind = "json"
        /\ json_load(dest.text) = json_load(source.text)

\* An export after queries, of a document with every top-level field and two
\* subscriptions, whose source text differs from the text written.
C8_Witness ==
    /\ op = "export_config"
    /\ arg.writable
    /\ queried
    /\ source.kind = "json"
    /\ DOMAIN json_load(source.text) = Range(KeyOrder)
    /\ Len(subscriptions) >= 2
    /\ dest.kind = "json"
    /\ dest.text # source.text

\* C10: when validate_config returns true, get_webhooks of every stored
\* subscription, enabled or not, is its whole stored webhooks list and is not empty.
C10_ValidImpliesAllWebhooks ==
    (Validated /\ ret = TRUE) =>
        \A i \in 1..Len(subscriptions) :
            /\ get_webhooks(subscriptions[i]) = Get(subscriptions[i], "webhooks", <<>>)
            /\ get_webhooks(subscriptions[i]) # <<>>

\* A valid store that holds a disabled subscription.
C10_Witness ==
    /\ Validated
    /\ ret = TRUE
    /\ Len(subscriptions) >= 2
    /\ \E i \in 1..Len(subscriptions) : Get(subscriptions[i], "enabled", TRUE) = FALSE

====
